---- MODULE Spec2Model ----
(***************************************************************************)
(* A model of falcano/attributes.py: the attribute type hierarchy, type    *)
(* registration (AttributeContainerMeta), the dual-mode MapAttribute and   *)
(* the serialize/deserialize functions.                                    *)
(*                                                                         *)
(* Python objects live in a heap (a sequence of records, an object's       *)
(* identity is its index), classes in a class table.  Python's None is the *)
(* string "None"; an absent dictionary entry is the object id 0.           *)
(***************************************************************************)
EXTENDS Integers, Sequences, FiniteSets, TLC

VARIABLES
    classes,    \* the class table: each class's body, _attributes, ...
    heap,       \* the attribute objects
    pc,         \* what the program is doing
    input,      \* the arguments of the call under study
    output      \* the values it has returned so far

vars == <<classes, heap, pc, input, output>>

None == "None"

\* Number of user types the model declares.
MaxTypes == 3

\* The python name of the field the k-th declared type has in its own body.
FieldNames == <<"f1", "f2", "f3", "f4", "f5", "f6">>

Names == {FieldNames[k] : k \in 1..MaxTypes}

\* The attr_name a field may be constructed with.
Overrides == {None, "w"}

Wires == Names \cup (Overrides \ {None})

NoLocals == [n \in Names |-> 0]

EmptyD2P == [w \in Wires |-> None]

\* The two library classes that exist once the module is imported.
AttributeContainerClass == 1
MapAttributeClass == 2

LibraryClass(kind, base) ==
    [kind |-> kind, base |-> base, body |-> NoLocals, attrs |-> NoLocals,
     d2p |-> EmptyD2P]

----------------------------------------------------------------------------
(* Native python values: records tagged with their runtime type.  A str is  *)
(* a sequence of one-character strings; a set carries its iteration order   *)
(* and is compared by its elements; a datetime is its calendar fields.      *)

PyNone == [t |-> "NoneType", v |-> <<>>]
IntV(n) == [t |-> "int", v |-> n]
FloatV(n) == [t |-> "float", v |-> n]        \* the float n.0
DecimalV(n) == [t |-> "Decimal", v |-> n]
BoolV(b) == [t |-> "bool", v |-> b]
StrV(s) == [t |-> "str", v |-> s]
BytesV(s) == [t |-> "bytes", v |-> s]
ListV(s) == [t |-> "list", v |-> s]
TupleV(s) == [t |-> "tuple", v |-> s]
SetV(s) == [t |-> "set", v |-> s]
FrozenSetV(s) == [t |-> "frozenset", v |-> s]
DictV(f) == [t |-> "dict", v |-> f]
Err(e) == [t |-> "Error", v |-> e]

\* aware: tzinfo is set (UTC); naive: tzinfo is None.
DateTimeV(y, mo, d, h, mi, s, us, aware) ==
    [t |-> "datetime",
     v |-> [y |-> y, mo |-> mo, d |-> d, h |-> h, mi |-> mi, s |-> s,
            us |-> us, aware |-> aware]]

\* The empty dict, and a dict with one more entry.
EmptyDict == [k \in {} |-> PyNone]

Put(f, k, v) == [x \in DOMAIN f \cup {k} |-> IF x = k THEN v ELSE f[x]]

IsErr(x) == x.t = "Error"

Range(s) == {s[i] : i \in 1..Len(s)}

\* Python's ==, for the values of the model.
PyEq(a, b) ==
    IF a.t = "set" /\ b.t = "set" THEN Range(a.v) = Range(b.v) ELSE a = b

\* Python's truth value.
Truthy(x) ==
    CASE x.t = "NoneType" -> FALSE
      [] x.t = "bool" -> x.v
      [] x.t \in {"int", "float", "Decimal"} -> x.v # 0
      [] x.t \in {"str", "bytes", "list", "tuple", "set", "frozenset"} ->
            x.v # <<>>
      [] x.t = "dict" -> DOMAIN x.v # {}
      [] OTHER -> TRUE

\* The characters of the model, in code-point order.
Alphabet ==
    <<"\"", "+", "-", ".", "0", "1", "2", "3", "4", "5", "6", "7", "8", "9",
      ":", "T", "a", "b", "e", "f", "l", "n", "r", "s", "t", "u">>

Ord(c) == CHOOSE i \in 1..Len(Alphabet) : Alphabet[i] = c

DigitChars == <<"0", "1", "2", "3", "4", "5", "6", "7", "8", "9">>

IsDigit(c) == c \in Range(DigitChars)

DigitOf(c) == (CHOOSE i \in 1..10 : DigitChars[i] = c) - 1

RECURSIVE Digits(_)

\* The decimal digits of n >= 0.
Digits(n) ==
    IF n < 10 THEN <<DigitChars[n + 1]>>
    ELSE Digits(n \div 10) \o <<DigitChars[(n % 10) + 1]>>

\* str(n) of an int.
IntText(n) == IF n < 0 THEN <<"-">> \o Digits(-n) ELSE Digits(n)

RECURSIVE Pad(_, _)

\* n formatted to at least `width` digits, zero-padded (%02d, %06d, ...).
Pad(n, width) ==
    LET ds == Digits(n) IN
    IF Len(ds) >= width THEN ds ELSE <<"0">> \o Pad(n, width - 1)

AllDigits(s) == s # <<>> /\ \A i \in 1..Len(s) : IsDigit(s[i])

RECURSIVE DigitsValue(_)

DigitsValue(s) ==
    IF s = <<>> THEN 0
    ELSE 10 * DigitsValue(SubSeq(s, 1, Len(s) - 1)) + DigitOf(s[Len(s)])

\* int(s): the number, or ValueError.
ParseInt(s) ==
    IF AllDigits(s) THEN IntV(DigitsValue(s))
    ELSE IF Len(s) > 1 /\ s[1] = "-" /\ AllDigits(Tail(s))
         THEN IntV(-DigitsValue(Tail(s)))
         ELSE Err("ValueError")

\* Python's < on two str values' characters.
RECURSIVE TextLess(_, _)
TextLess(a, b) ==
    IF b = <<>> THEN FALSE
    ELSE IF a = <<>> THEN TRUE
    ELSE IF Ord(a[1]) # Ord(b[1]) THEN Ord(a[1]) < Ord(b[1])
    ELSE TextLess(Tail(a), Tail(b))

\* Python's < on two values of the same type (str or number).
PyLess(a, b) == IF a.t = "str" THEN TextLess(a.v, b.v) ELSE a.v < b.v

RECURSIVE sorted(_)

\* sorted(iterable): the elements in ascending order.
sorted(s) ==
    IF s = <<>> THEN <<>>
    ELSE LET i == CHOOSE k \in 1..Len(s) :
                     \A j \in 1..Len(s) : ~PyLess(s[j], s[k])
         IN <<s[i]>> \o sorted(SubSeq(s, 1, i - 1) \o SubSeq(s, i + 1, Len(s)))

RECURSIVE Dedup(_)

\* The iteration order of set(iterable): each element once.
Dedup(s) ==
    IF s = <<>> THEN <<>>
    ELSE LET rest == Dedup(SubSeq(s, 1, Len(s) - 1)) IN
         IF s[Len(s)] \in Range(rest) THEN rest ELSE Append(rest, s[Len(s)])

\* str(value)
str_of(x) ==
    CASE x.t = "str" -> x
      [] x.t = "int" -> StrV(IntText(x.v))
      [] x.t = "bool" -> StrV(IF x.v THEN <<"T", "r", "u", "e">>
                                     ELSE <<"F", "a", "l", "s", "e">>)
      [] x.t = "NoneType" -> StrV(<<"N", "o", "n", "e">>)
      [] OTHER -> Err("unmodelled")

\* json.dumps(value) of a scalar.
json_dumps(x) ==
    CASE x.t = "str" -> StrV(<<"\"">> \o x.v \o <<"\"">>)
      [] x.t = "int" -> StrV(IntText(x.v))
      [] x.t = "float" -> StrV(IntText(x.v) \o <<".", "0">>)
      [] x.t = "bool" -> StrV(IF x.v THEN <<"t", "r", "u", "e">>
                                     ELSE <<"f", "a", "l", "s", "e">>)
      [] x.t = "NoneType" -> StrV(<<"n", "u", "l", "l">>)
      [] OTHER -> Err("TypeError")

\* json.loads(value): only text can be decoded.
json_loads(x) ==
    IF x.t \notin {"str", "bytes"} THEN Err("TypeError")
    ELSE LET s == x.v
             n == Len(s)
         IN CASE n >= 2 /\ s[1] = "\"" /\ s[n] = "\"" ->
                    StrV(SubSeq(s, 2, n - 1))
              [] s = <<"t", "r", "u", "e">> -> BoolV(TRUE)
              [] s = <<"f", "a", "l", "s", "e">> -> BoolV(FALSE)
              [] s = <<"n", "u", "l", "l">> -> PyNone
              [] n >= 3 /\ s[n - 1] = "." /\ s[n] = "0"
                     /\ ~IsErr(ParseInt(SubSeq(s, 1, n - 2))) ->
                    FloatV(ParseInt(SubSeq(s, 1, n - 2)).v)
              [] OTHER ->
                    IF IsErr(ParseInt(s)) THEN Err("JSONDecodeError")
                    ELSE ParseInt(s)

----------------------------------------------------------------------------
(* datetime, calendar: instants are UTC; the only tzinfo is tzutc()         *)

\* Days from 1970-01-01 to the civil date y-m-d.
days_from_civil(y, m, d) ==
    LET yy == IF m <= 2 THEN y - 1 ELSE y
        era == yy \div 400
        yoe == yy - era * 400
        mp == IF m > 2 THEN m - 3 ELSE m + 9
        doy == (153 * mp + 2) \div 5 + d - 1
        doe == yoe * 365 + yoe \div 4 - yoe \div 100 + doy
    IN era * 146097 + doe - 719468

\* The civil date <<y, m, d>> of the day z days after 1970-01-01.
civil_from_days(z) ==
    LET zz == z + 719468
        era == zz \div 146097
        doe == zz - era * 146097
        yoe == (doe - doe \div 1460 + doe \div 36524 - doe \div 146096) \div 365
        doy == doe - (365 * yoe + yoe \div 4 - yoe \div 100)
        mp == (5 * doy + 2) \div 153
        d == doy - (153 * mp + 2) \div 5 + 1
        m == IF mp < 10 THEN mp + 3 ELSE mp - 9
        y == yoe + era * 400
    IN <<IF m <= 2 THEN y + 1 ELSE y, m, d>>

\* calendar.timegm(value.utctimetuple()): whole seconds since the epoch.
timegm(dt) ==
    days_from_civil(dt.v.y, dt.v.mo, dt.v.d) * 86400
        + dt.v.h * 3600 + dt.v.mi * 60 + dt.v.s

\* datetime.utcfromtimestamp(ts).replace(tzinfo=tzutc())
utcfromtimestamp(ts) ==
    LET days == ts \div 86400
        rem == ts % 86400
        c == civil_from_days(days)
    IN DateTimeV(c[1], c[2], c[3], rem \div 3600, (rem % 3600) \div 60,
                 rem % 60, 0, TRUE)

\* value.strftime(DATETIME_FORMAT), '%Y-%m-%dT%H:%M:%S.%f+0000'
strftime(dt) ==
    StrV(Pad(dt.v.y, 4) \o <<"-">> \o Pad(dt.v.mo, 2) \o <<"-">>
         \o Pad(dt.v.d, 2) \o <<"T">> \o Pad(dt.v.h, 2) \o <<":">>
         \o Pad(dt.v.mi, 2) \o <<":">> \o Pad(dt.v.s, 2) \o <<".">>
         \o Pad(dt.v.us, 6) \o <<"+", "0", "0", "0", "0">>)

RECURSIVE Pow10(_)
Pow10(k) == IF k = 0 THEN 1 ELSE 10 * Pow10(k - 1)

\* round(float("." + digits) * 1e6), for up to six digits
Micros(ds) ==
    IF Len(ds) <= 6 THEN DigitsValue(ds) * Pow10(6 - Len(ds))
    ELSE DigitsValue(SubSeq(ds, 1, 6))

\* _fast_parse_utc_datestring (python indices are 0-based)
fast_parse_utc_datestring(x) ==
    IF x.t # "str" THEN Err("ValueError")
    ELSE LET s == x.v
             n == Len(s)
         IN IF n < 26 THEN Err("IndexError")
            ELSE IF \/ s[5] # "-" \/ s[8] # "-" \/ s[11] # "T"
                    \/ s[14] # ":" \/ s[17] # ":" \/ s[20] # "."
                    \/ SubSeq(s, n - 4, n) # <<"+", "0", "0", "0", "0">>
                    \/ ~AllDigits(SubSeq(s, 1, 4))
                    \/ ~AllDigits(SubSeq(s, 6, 7))
                    \/ ~AllDigits(SubSeq(s, 9, 10))
                    \/ ~AllDigits(SubSeq(s, 12, 13))
                    \/ ~AllDigits(SubSeq(s, 15, 16))
                    \/ ~AllDigits(SubSeq(s, 18, 19))
                    \/ ~AllDigits(SubSeq(s, 21, n - 5))
            THEN Err("ValueError")
            ELSE DateTimeV(DigitsValue(SubSeq(s, 1, 4)),
                           DigitsValue(SubSeq(s, 6, 7)),
                           DigitsValue(SubSeq(s, 9, 10)),
                           DigitsValue(SubSeq(s, 12, 13)),
                           DigitsValue(SubSeq(s, 15, 16)),
                           DigitsValue(SubSeq(s, 18, 19)),
                           Micros(SubSeq(s, 21, n - 5)), TRUE)

----------------------------------------------------------------------------
(* The scalar and collection attribute types *)

\* Attribute.serialize / Attribute.deserialize
Attribute_serialize(value) == value
Attribute_deserialize(value) == value

\* UnicodeAttribute.serialize
UnicodeAttribute_serialize(value) ==
    IF ~Truthy(value) THEN PyNone
    ELSE IF value.t = "str" THEN value
    ELSE str_of(value)

\* Whether iter(value) succeeds.
Iterable(value) ==
    value.t \in {"str", "bytes", "list", "tuple", "set", "frozenset", "dict"}

\* A faulty variant of SetMixin_serialize: the elements in iteration order.
SetMixin_serialize_unsorted(value) ==
    IF value.t = "NoneType" THEN PyNone
    ELSE LET it == IF Iterable(value) THEN value.v ELSE <<value>> IN
         IF it # <<>>
         THEN ListV([i \in 1..Len(it) |-> json_dumps(it[i])])
         ELSE PyNone

\* SetMixin.serialize
SetMixin_serialize(value) ==
    IF value.t = "NoneType" THEN PyNone
    ELSE LET it == IF Iterable(value) THEN value.v ELSE <<value>> IN
         IF it # <<>>
         THEN ListV([i \in 1..Len(it) |-> json_dumps(sorted(it)[i])])
         ELSE PyNone

\* SetMixin.deserialize
SetMixin_deserialize(value) ==
    IF Truthy(value)
    THEN SetV(Dedup([i \in 1..Len(value.v) |-> json_loads(value.v[i])]))
    ELSE PyNone

\* UnicodeSetAttribute.element_serialize
element_serialize(value) == IF value.t = "str" THEN value ELSE str_of(value)

\* UnicodeSetAttribute.element_deserialize
element_deserialize(value) == value

\* UnicodeSetAttribute.serialize
UnicodeSetAttribute_serialize(value) ==
    IF value.t = "NoneType" THEN PyNone
    ELSE LET it == IF Iterable(value) THEN value.v ELSE <<value>> IN
         IF it # <<>>
         THEN SetV(Dedup([i \in 1..Len(it) |->
                             element_serialize(sorted(it)[i])]))
         ELSE PyNone

\* UnicodeSetAttribute.deserialize
UnicodeSetAttribute_deserialize(value) ==
    IF Truthy(value)
    THEN SetV(Dedup([i \in 1..Len(value.v) |->
                        element_deserialize(value.v[i])]))
    ELSE PyNone

\* NumberAttribute.serialize
NumberAttribute_serialize(value) == value

\* NumberAttribute.deserialize
NumberAttribute_deserialize(value) == json_loads(value)

\* TTLAttribute._normalize; now is time.time().
TTLAttribute_normalize(value, now) ==
    CASE value.t = "NoneType" -> PyNone
      [] value.t = "timedelta" -> utcfromtimestamp(now + value.v)
      [] value.t = "datetime" ->
            IF ~value.v.aware THEN Err("ValueError")
            ELSE utcfromtimestamp(timegm(value))
      [] OTHER -> Err("ValueError")

\* TTLAttribute.serialize
TTLAttribute_serialize(value, now) ==
    IF value.t = "NoneType" THEN PyNone
    ELSE LET normal == TTLAttribute_normalize(value, now) IN
         IF IsErr(normal) THEN normal ELSE json_dumps(IntV(timegm(normal)))

\* TTLAttribute.deserialize
TTLAttribute_deserialize(value) ==
    LET timestamp == json_loads(value) IN
    IF IsErr(timestamp) THEN timestamp
    ELSE IF timestamp.t \notin {"int", "float"} THEN Err("TypeError")
    ELSE utcfromtimestamp(timestamp.v)

\* UTCDateTimeAttribute.serialize
UTCDateTimeAttribute_serialize(value) ==
    IF value.t = "str" THEN value
    ELSE IF value.t # "datetime" THEN Err("AttributeError")
    ELSE strftime([value EXCEPT !.v.aware = TRUE])

\* UTCDateTimeAttribute.deserialize: the fast parser; text it rejects goes to
\* strptime and dateutil, which are outside the model.
UTCDateTimeAttribute_deserialize(value) ==
    LET fast == fast_parse_utc_datestring(value) IN
    IF IsErr(fast) THEN Err("fallback") ELSE fast

\* NullAttribute.serialize / deserialize
NullAttribute_serialize(value) == BoolV(TRUE)
NullAttribute_deserialize(value) == PyNone

\* ListAttribute.serialize / deserialize
ListAttribute_serialize(values) == values
ListAttribute_deserialize(values) == values

\* BooleanAttribute.serialize
BooleanAttribute_serialize(value) ==
    IF value.t = "NoneType" THEN PyNone
    ELSE IF Truthy(value) THEN BoolV(TRUE)
    ELSE BoolV(FALSE)

\* BooleanAttribute.deserialize
BooleanAttribute_deserialize(value) == BoolV(Truthy(value))

\* KeyAttribute.__init__: the configured attribute, or the exception.
KeyAttribute_init(prefix, suffix, value, hash_key, range_key, separator) ==
    IF ~Truthy(suffix) /\ ~Truthy(prefix) /\ ~Truthy(value)
    THEN Err("AttributeError")
    ELSE IF ~hash_key /\ ~range_key THEN Err("AttributeError")
    ELSE [t |-> "KeyAttribute",
          v |-> [prefix |-> prefix, suffix |-> suffix, fixed_value |-> value,
                 separator |-> IF Truthy(separator) THEN separator
                               ELSE StrV(<<"#">>)]]

\* KeyAttribute.serialize: the f-string formats every part with str().
KeyAttribute_serialize(self, value) ==
    LET used == IF ~Truthy(value) /\ Truthy(self.v.fixed_value)
                THEN self.v.fixed_value
                ELSE value
        head == IF Truthy(self.v.prefix)
                THEN str_of(self.v.prefix).v \o str_of(self.v.separator).v
                ELSE <<>>
        tail == IF Truthy(self.v.suffix)
                THEN str_of(self.v.separator).v \o str_of(self.v.suffix).v
                ELSE <<>>
    IN UnicodeAttribute_serialize(StrV(head \o str_of(used).v \o tail))

\* attr.serialize(value) by the attribute's class.
ScalarSerialize(kind, value, now) ==
    CASE kind = "Unicode" -> UnicodeAttribute_serialize(value)
      [] kind = "Number" -> NumberAttribute_serialize(value)
      [] kind = "Boolean" -> BooleanAttribute_serialize(value)
      [] kind = "UnicodeSet" -> UnicodeSetAttribute_serialize(value)
      [] kind = "SetMixin" -> SetMixin_serialize(value)
      [] kind = "List" -> ListAttribute_serialize(value)
      [] kind = "UTCDateTime" -> UTCDateTimeAttribute_serialize(value)
      [] kind = "TTL" -> TTLAttribute_serialize(value, now)
      [] kind = "Null" -> NullAttribute_serialize(value)

\* attr.deserialize(value) by the attribute's class.
ScalarDeserialize(kind, value) ==
    CASE kind = "Unicode" -> Attribute_deserialize(value)
      [] kind = "Number" -> NumberAttribute_deserialize(value)
      [] kind = "Boolean" -> BooleanAttribute_deserialize(value)
      [] kind = "UnicodeSet" -> UnicodeSetAttribute_deserialize(value)
      [] kind = "SetMixin" -> SetMixin_deserialize(value)
      [] kind = "List" -> ListAttribute_deserialize(value)
      [] kind = "UTCDateTime" -> UTCDateTimeAttribute_deserialize(value)
      [] kind = "TTL" -> TTLAttribute_deserialize(value)
      [] kind = "Null" -> NullAttribute_deserialize(value)

----------------------------------------------------------------------------
(* Attribute objects *)

\* The names of the arguments of Attribute.__init__ (MapAttribute.attribute_args).
attribute_args ==
    {"hash_key", "range_key", "null", "default", "default_for_new", "attr_name"}

\* `if default and default_for_new: raise ValueError`: the test is on the truth
\* values of the two arguments.
DefaultsConflict(default, default_for_new) ==
    Truthy(default) /\ Truthy(default_for_new)

\* Attribute.__init__ past the conflict test: the defaults are stored and attr_path is
\* a fresh one-element list holding attr_name.
AttributeInit(kind, default, default_for_new, attr_name) ==
    [kind |-> kind, cls |-> 0, path |-> <<attr_name>>, container |-> FALSE,
     given |-> attr_name, default |-> default,
     default_for_new |-> default_for_new, locals |-> NoLocals, sites |-> 0,
     values |-> EmptyDict, dict |-> EmptyDict]

\* MapAttribute.__init__: the Attribute arguments are kept in attribute_kwargs
\* (make_attribute hands them to Attribute.__init__) and the instance starts
\* as a container owning attribute_values; it has no attr_path yet.  The
\* record's values field is the attribute_values dict while the instance
\* owns one, and dict holds what else is written into its __dict__.
MapAttributeInit(cls, attr_name) ==
    [kind |-> "Map", cls |-> cls, path |-> <<>>, container |-> TRUE,
     given |-> attr_name, default |-> PyNone, default_for_new |-> PyNone,
     locals |-> NoLocals, sites |-> 0,
     values |-> EmptyDict, dict |-> EmptyDict]

\* Attribute.attr_name (the property): the last segment of attr_path.
attr_name(o) == o.path[Len(o.path)]

\* MapAttribute.is_attribute_container
is_attribute_container(o) == o.container

\* MapAttribute.is_raw
is_raw(c) == c = MapAttributeClass

----------------------------------------------------------------------------
(* deepcopy of an attribute: the object and everything in its __dict__ *)

RECURSIVE deepcopy(_, _)
RECURSIVE CopyLocals(_, _, _, _)

\* Copies the local attributes of src into the copy at index dst, from the
\* i-th name on.
CopyLocals(h, src, dst, i) ==
    IF i > Len(FieldNames) \/ FieldNames[i] \notin Names THEN h
    ELSE LET n == FieldNames[i] IN
         IF h[src].locals[n] = 0 THEN CopyLocals(h, src, dst, i + 1)
         ELSE LET child == Len(h) + 1
                  h1 == deepcopy(h, h[src].locals[n])
                  h2 == [h1 EXCEPT ![dst].locals[n] = child]
              IN CopyLocals(h2, src, dst, i + 1)

\* The heap with a deep copy of object a appended; the copy is at Len(h) + 1.
deepcopy(h, a) ==
    CopyLocals(Append(h, h[a]), a, Len(h) + 1, 1)

\* A faulty variant of CopyAttr: the class attribute itself is stored, not a copy.
ShareAttr(h, a) == <<h, a>>

\* `self.__dict__[name] = deepcopy(attr)`: the heap after the copy, and the
\* object stored under the name.
CopyAttr(h, a) == <<deepcopy(h, a), Len(h) + 1>>

----------------------------------------------------------------------------
(* MapAttribute.make_attribute and update_attribute_paths *)

RECURSIVE ShadowAttrs(_, _, _, _)

\* The loop of make_attribute over get_attributes().items().
ShadowAttrs(h, cs, o, i) ==
    IF i > Len(FieldNames) \/ FieldNames[i] \notin Names THEN h
    ELSE LET n == FieldNames[i]
             attr == cs[h[o].cls].attrs[n]
         IN IF attr = 0 THEN ShadowAttrs(h, cs, o, i + 1)
            ELSE LET r == CopyAttr(h, attr)
                     h1 == [r[1] EXCEPT ![o].locals[n] = r[2]]
                 IN ShadowAttrs(h1, cs, o, i + 1)

\* make_attribute: <<heap, initialized>>.
make_attribute(h, cs, o) ==
    IF ~is_attribute_container(h[o]) THEN <<h, FALSE>>
    ELSE LET h1 == [h EXCEPT ![o].container = FALSE,
                             ![o].values = EmptyDict,
                             ![o].path = <<h[o].given>>]
         IN <<ShadowAttrs(h1, cs, o, 1), TRUE>>

\* A faulty variant of PrependSegment: the segment is appended.
AppendSegment(path, path_segment) == path \o <<path_segment>>

\* `local_attr.attr_path.insert(0, path_segment)`
PrependSegment(path, path_segment) == <<path_segment>> \o path

RECURSIVE update_attribute_paths(_, _, _, _)
RECURSIVE UpdateLocals(_, _, _, _, _)

UpdateLocals(h, cs, o, path_segment, i) ==
    IF i > Len(FieldNames) \/ FieldNames[i] \notin Names THEN h
    ELSE LET n == FieldNames[i] IN
         IF cs[h[o].cls].attrs[n] = 0
         THEN UpdateLocals(h, cs, o, path_segment, i + 1)
         ELSE LET local_attr == h[o].locals[n]
                  h1 == [h EXCEPT ![local_attr].path =
                                     PrependSegment(@, path_segment)]
                  h2 == IF h1[local_attr].kind = "Map"
                        THEN update_attribute_paths(h1, cs, local_attr,
                                                    path_segment)
                        ELSE h1
              IN UpdateLocals(h2, cs, o, path_segment, i + 1)

update_attribute_paths(h, cs, o, path_segment) ==
    UpdateLocals(h, cs, o, path_segment, 1)

----------------------------------------------------------------------------
(* AttributeContainerMeta._initialize_attributes *)

RECURSIVE Lookup(_, _, _)

\* getattr(cls, name): the class's own body, then its bases'.
Lookup(cs, c, n) ==
    IF cs[c].body[n] # 0 THEN cs[c].body[n]
    ELSE IF cs[c].base # 0 THEN Lookup(cs, cs[c].base, n)
    ELSE 0

\* A faulty variant of ConvertedNow: the paths are updated at every
\* registration.
ConvertedBefore(initialized, kind) == kind = "Map"

\* `if initialized and isinstance(attribute, MapAttribute)`
ConvertedNow(initialized, kind) == initialized /\ kind = "Map"

RECURSIVE InitMembers(_, _, _, _)

\* The loop over getmembers(cls, isinstance Attribute), which yields the
\* members sorted by name; st is [h, cs].
InitMembers(h, cs, c, i) ==
    IF i > Len(FieldNames) \/ FieldNames[i] \notin Names THEN [h |-> h, cs |-> cs]
    ELSE LET name == FieldNames[i]
             attribute == Lookup(cs, c, name)
         IN IF attribute = 0 THEN InitMembers(h, cs, c, i + 1)
            ELSE
            LET made == IF h[attribute].kind = "Map"
                        THEN make_attribute(h, cs, attribute)
                        ELSE <<h, FALSE>>
                h1 == made[1]
                initialized == made[2]
                cs1 == [cs EXCEPT ![c].attrs[name] = attribute]
                named == attr_name(h1[attribute]) # None
                cs2 == IF named
                       THEN [cs1 EXCEPT
                               ![c].d2p[attr_name(h1[attribute])] = name]
                       ELSE cs1
                h2 == IF named THEN h1
                      ELSE [h1 EXCEPT
                              ![attribute].path[Len(h1[attribute].path)] = name]
                h3 == IF ConvertedNow(initialized, h2[attribute].kind)
                      THEN update_attribute_paths(h2, cs2, attribute,
                                                  attr_name(h2[attribute]))
                      ELSE h2
            IN InitMembers(h3, cs2, c, i + 1)

initialize_attributes(h, cs, c) ==
    InitMembers(h, [cs EXCEPT ![c].attrs = NoLocals, ![c].d2p = EmptyD2P], c, 1)

----------------------------------------------------------------------------
(* Declaring types *)

NumTypes == Len(classes) - 2

IsMapClass(cs, c) == cs[c].kind = "map"

ClassKind(base) == IF IsMapClass(classes, base) THEN "map" ELSE "container"

\* The objects bound in the body of some declared class.
BodyObjects == {classes[c].body[n] : c \in 1..Len(classes), n \in Names} \ {0}

\* `class C(base): name = obj`, then the metaclass's registration.
Declare(base, name, obj, h) ==
    LET c == Len(classes) + 1
        body == IF obj = 0 THEN NoLocals ELSE [NoLocals EXCEPT ![name] = obj]
        h0 == IF obj = 0 THEN h ELSE [h EXCEPT ![obj].sites = @ + 1]
        cs == Append(classes,
                     [kind |-> ClassKind(base), base |-> base, body |-> body,
                      attrs |-> NoLocals, d2p |-> EmptyD2P])
        st == initialize_attributes(h0, cs, c)
    IN /\ pc = "declare"
       /\ classes' = st.cs
       /\ heap' = st.h
       /\ UNCHANGED <<pc, input, output>>

\* A type whose one own field is a new scalar attribute.
DeclareScalar(base, w) ==
    /\ NumTypes < MaxTypes
    /\ Declare(base, FieldNames[NumTypes + 1], Len(heap) + 1,
               Append(heap, AttributeInit("Unicode", PyNone, PyNone, w)))

\* A type whose one own field is a new instance of a MapAttribute class.
DeclareNested(base, m, w) ==
    /\ NumTypes < MaxTypes
    /\ IsMapClass(classes, m)
    /\ Declare(base, FieldNames[NumTypes + 1], Len(heap) + 1,
               Append(heap, MapAttributeInit(m, w)))

\* A type whose own field is an instance already bound in another class body.
DeclareReusing(base, o) ==
    /\ NumTypes < MaxTypes
    /\ o \in BodyObjects
    /\ heap[o].kind = "Map"
    /\ Declare(base, FieldNames[NumTypes + 1], o, heap)

\* A subtype with an empty body.
DeclareSubtype(base) ==
    /\ NumTypes < MaxTypes
    /\ base > 2
    /\ Declare(base, FieldNames[NumTypes + 1], 0, heap)

\* AttributeContainerMeta._initialize_attributes(cls) run again on a
\* registered type.
Reregister(c) ==
    /\ pc = "declare"
    /\ c > MapAttributeClass
    /\ LET st == initialize_attributes(heap, classes, c) IN
       /\ classes' = st.cs
       /\ heap' = st.h
    /\ pc' = "registered"
    /\ UNCHANGED <<input, output>>

\* The state once the module is imported.
Imported ==
    /\ classes = <<LibraryClass("container", 0),
                   LibraryClass("map", AttributeContainerClass)>>
    /\ heap = <<>>

NoCall == [op |-> "none", kind |-> "none", a |-> PyNone, b |-> PyNone]

Init ==
    /\ Imported
    /\ pc = "declare"
    /\ input = NoCall
    /\ output = <<>>

Next ==
    \/ \E base \in 1..Len(classes), w \in Overrides : DeclareScalar(base, w)
    \/ \E base \in 1..Len(classes), m \in 1..Len(classes), w \in Overrides :
          DeclareNested(base, m, w)
    \/ \E base \in 1..Len(classes), o \in 1..Len(heap) : DeclareReusing(base, o)
    \/ \E base \in 1..Len(classes) : DeclareSubtype(base)

Spec == Init /\ [][Next]_vars

\* The declarations, and a registration run again.
NextAgain ==
    \/ Next
    \/ \E c \in 1..Len(classes) : Reregister(c)

SpecAgain == Init /\ [][NextAgain]_vars

----------------------------------------------------------------------------
(* Properties of registration *)

UserClasses == 3..Len(classes)

RECURSIVE SubFields(_)

\* The attribute objects reachable through the local attributes of object o.
SubFields(o) ==
    LET direct == {heap[o].locals[n] : n \in Names} \ {0}
    IN direct \cup UNION {SubFields(d) : d \in direct}

\* The attribute objects of the class-level schema of class c.
ClassSchema(c) ==
    LET direct == {classes[c].attrs[n] : n \in Names} \ {0}
    IN direct \cup UNION {SubFields(d) : d \in direct}

\* The nested-document field objects of the registered types.
NestedFields ==
    {o \in 1..Len(heap) :
        /\ heap[o].kind = "Map"
        /\ \E c \in UserClasses, n \in Names : classes[c].attrs[n] = o}

\* C1 (schema isolation): the sub-field attribute objects reachable through
\* the nested-document field of one registered type are distinct from those
\* reachable through any other nested-document field object, and from the
\* class-level schema of the nested type itself.
SchemaIsolation ==
    LET sub == [o \in NestedFields |-> SubFields(o)] IN
    \A f \in NestedFields :
        /\ sub[f] \cap ClassSchema(heap[f].cls) = {}
        /\ \A g \in NestedFields : f # g => sub[f] \cap sub[g] = {}

\* Two types, the second a subtype of the first, each declare their own field
\* of the same MapAttribute subclass, which has sub-fields.
SchemaIsolationWitness ==
    \E c \in UserClasses, d \in UserClasses, n \in Names, m \in Names :
        LET f == classes[c].body[n]
            g == classes[d].body[m]
        IN /\ classes[d].base = c
           /\ f # 0 /\ g # 0 /\ f # g
           /\ classes[c].attrs[n] = f
           /\ classes[d].attrs[m] = g
           /\ classes[d].attrs[n] = f
           /\ heap[f].kind = "Map"
           /\ heap[f].cls = heap[g].cls
           /\ heap[f].cls > 2
           /\ SubFields(f) # {}
           /\ SubFields(g) # {}

\* The wire name a field declared under python name n is meant to have.
WireName(o, n) == IF heap[o].given # None THEN heap[o].given ELSE n

\* C2 (path composition): a field declared at one site of a registered type
\* has the one-segment path [its wire name]; the path of every field nested
\* in a converted MapAttribute is the path of the enclosing field followed by
\* the nested field's own wire name, at every depth.
PathComposition ==
    /\ \A c \in UserClasses, n \in Names :
          LET o == classes[c].attrs[n] IN
          (o # 0 /\ heap[o].sites = 1) => heap[o].path = <<WireName(o, n)>>
    /\ \A o \in 1..Len(heap) :
          (heap[o].kind = "Map" /\ ~is_attribute_container(heap[o])) =>
             \A n \in Names :
                LET attr == classes[heap[o].cls].attrs[n] IN
                attr # 0 =>
                   /\ heap[o].locals[n] # 0
                   /\ heap[heap[o].locals[n]].path =
                         heap[o].path \o <<attr_name(heap[attr])>>

\* Outer{f3: Middle}, Middle{f2: Inner(attr_name="w")}, Inner{f1}: the leaf
\* reached through Outer.f3.f2 has the path [f3, w, f1].
PathCompositionWitness ==
    \E c \in UserClasses :
        /\ classes[c].kind = "container"
        /\ classes[c].attrs["f3"] # 0
        /\ LET a == classes[c].attrs["f3"] IN
           /\ heap[a].locals["f2"] # 0
           /\ LET b == heap[a].locals["f2"] IN
              /\ heap[b].locals["f1"] # 0
              /\ heap[heap[b].locals["f1"]].path = <<"f3", "w", "f1">>

\* C11 (duplicate wire names): no registered type has two schema fields,
\* each a field object of its own declared at one site, with the same wire
\* name; a declaration that would give it two is refused.
NoDuplicateWireNames ==
    \A c \in UserClasses, n \in Names, m \in Names :
        LET a == classes[c].attrs[n]
            b == classes[c].attrs[m]
        IN (/\ n # m /\ a # 0 /\ b # 0 /\ a # b
            /\ heap[a].sites = 1 /\ heap[b].sites = 1)
              => attr_name(heap[a]) # attr_name(heap[b])

\* C17 (double conversion fails loudly): a declaration that binds a
\* MapAttribute instance already converted for another declaration fails, so
\* no instance is bound in the bodies of two declared types.
DoubleConversionFails ==
    \A o \in 1..Len(heap) : heap[o].kind = "Map" => heap[o].sites <= 1

----------------------------------------------------------------------------
(* Raw type inference *)

\* An attribute instance handed back by a registry, by its class.
AttributeOf(kind) == [t |-> "Attribute", v |-> kind]

\* A wire type tag.
Tag(tag) == [t |-> "tag", v |-> tag]

SERIALIZE_CLASS_MAP ==
    [ty \in {"dict", "list", "set", "bool", "float", "int", "Decimal", "str"} |->
        CASE ty = "dict" -> "Map"
          [] ty \in {"list", "set"} -> "List"
          [] ty = "bool" -> "Boolean"
          [] ty \in {"float", "int", "Decimal"} -> "Number"
          [] ty = "str" -> "Unicode"]

SERIALIZE_KEY_MAP ==
    [ty \in {"dict", "list", "set", "bool", "float", "int", "str"} |->
        CASE ty = "dict" -> "M"
          [] ty \in {"list", "set"} -> "L"
          [] ty = "bool" -> "BOOL"
          [] ty \in {"float", "int"} -> "N"
          [] ty = "str" -> "S"]

\* The attr_type of each attribute class.
attr_type(kind) ==
    CASE kind \in {"Unicode", "UTCDateTime"} -> "STRING"
      [] kind = "UnicodeSet" -> "STRING_SET"
      [] kind \in {"Number", "TTL"} -> "NUMBER"
      [] kind = "Null" -> "NULL"
      [] kind = "Map" -> "MAP"
      [] kind = "List" -> "LIST"
      [] kind = "Boolean" -> "BOOLEAN"

\* falcano.constants.ATTR_TYPE_MAP: the wire tag of each attr_type.
ATTR_TYPE_MAP ==
    [ty \in {"STRING", "STRING_SET", "NUMBER", "NULL", "MAP", "LIST", "BOOLEAN"} |->
        CASE ty = "STRING" -> "S"
          [] ty = "STRING_SET" -> "SS"
          [] ty = "NUMBER" -> "N"
          [] ty = "NULL" -> "NULL"
          [] ty = "MAP" -> "M"
          [] ty = "LIST" -> "L"
          [] ty = "BOOLEAN" -> "BOOL"]

\* _get_class_for_serialize
get_class_for_serialize(value) ==
    IF value.t = "NoneType" THEN AttributeOf("Null")
    ELSE IF value.t = "MapAttribute" THEN AttributeOf("Map")
    ELSE IF value.t \notin DOMAIN SERIALIZE_CLASS_MAP THEN Err("ValueError")
    ELSE AttributeOf(SERIALIZE_CLASS_MAP[value.t])

\* _get_key_for_serialize
get_key_for_serialize(value) ==
    IF value.t = "NoneType" THEN Tag(ATTR_TYPE_MAP[attr_type("Null")])
    ELSE IF value.t = "MapAttribute" THEN Tag("M")
    ELSE IF value.t \notin DOMAIN SERIALIZE_KEY_MAP THEN Err("ValueError")
    ELSE Tag(SERIALIZE_KEY_MAP[value.t])

----------------------------------------------------------------------------
(* Calls of the codec functions on native values *)

Texts == {<<"a">>, <<"b">>, <<"a", "b">>}

Numbers == {-1, 0, 5, 12}

\* time.time() at the call.
Clock == {1704067200, 1704067260}

\* The iteration orders of the non-empty sets of texts.
SetOrders ==
    {s \in UNION {[1..n -> {StrV(x) : x \in Texts}] : n \in 1..Cardinality(Texts)} :
        \A i, j \in 1..Len(s) : i # j => s[i] # s[j]}

Instants ==
    {DateTimeV(2024, 1, 1, 0, 0, 0, 0, TRUE),
     DateTimeV(2024, 2, 29, 23, 59, 59, 0, TRUE),
     DateTimeV(1999, 12, 31, 12, 30, 45, 0, TRUE),
     DateTimeV(2000, 3, 1, 0, 0, 1, 0, TRUE)}

\* The valid native values of each attribute type.
Domain(kind) ==
    CASE kind = "Unicode" -> {StrV(x) : x \in Texts}
      [] kind = "Number" ->
            {IntV(n) : n \in Numbers} \cup {FloatV(n) : n \in Numbers}
      [] kind = "Boolean" -> {BoolV(TRUE), BoolV(FALSE)}
      [] kind = "UnicodeSet" -> {SetV(s) : s \in SetOrders}
      [] kind = "List" ->
            {ListV(<<>>), ListV(<<IntV(1)>>), ListV(<<StrV(<<"a">>), IntV(5)>>)}
      [] kind = "UTCDateTime" ->
            Instants \cup {DateTimeV(2024, 1, 1, 0, 0, 0, 5, TRUE),
                           DateTimeV(2024, 12, 31, 23, 59, 59, 999999, TRUE)}
      [] kind = "TTL" -> Instants

RoundTripKinds ==
    {"Unicode", "Number", "Boolean", "UnicodeSet", "List", "UTCDateTime", "TTL"}

RoundTripCalls ==
    {[op |-> "roundtrip", kind |-> k, a |-> v, b |-> PyNone] :
        k \in RoundTripKinds, v \in UNION {Domain(kk) : kk \in RoundTripKinds}}

SetCalls ==
    {[op |-> "sets", kind |-> k, a |-> SetV(s1), b |-> SetV(s2)] :
        k \in {"SetMixin", "UnicodeSet"}, s1 \in SetOrders, s2 \in SetOrders}

\* Native values of every runtime type the registries may meet.
RuntimeValues ==
    {PyNone, IntV(1), IntV(0), FloatV(1), DecimalV(1), DecimalV(0),
     BoolV(TRUE), BoolV(FALSE), StrV(<<"a">>), StrV(<<>>), BytesV(<<"a">>),
     ListV(<<>>), ListV(<<IntV(1)>>), TupleV(<<IntV(1)>>), SetV(<<>>),
     SetV(<<IntV(1)>>), FrozenSetV(<<>>), DictV(<<>>),
     [t |-> "MapAttribute", v |-> <<>>],
     DateTimeV(2024, 1, 1, 0, 0, 0, 0, TRUE)}

InferCalls ==
    {[op |-> "infer", kind |-> "raw", a |-> v, b |-> PyNone] : v \in RuntimeValues}

\* The KeyAttribute objects the constructor accepts.
KeyAttributes ==
    {k \in {KeyAttribute_init(p, x, v, h, ~h, sep) :
                p \in {PyNone, StrV(<<"p">>)}, x \in {PyNone, StrV(<<"s">>)},
                v \in {PyNone, StrV(<<"v">>)}, h \in BOOLEAN,
                sep \in {PyNone, StrV(<<"-">>)}} : ~IsErr(k)}

KeyCalls ==
    {[op |-> "key", kind |-> "Key", a |-> v, b |-> k] :
        v \in {PyNone, StrV(<<>>), StrV(<<"d">>)}, k \in KeyAttributes}

ValueInit ==
    /\ Imported
    /\ pc = "call"
    /\ input \in {c \in RoundTripCalls : c.a \in Domain(c.kind)}
                    \cup {c \in SetCalls : Range(c.a.v) = Range(c.b.v)}
                    \cup InferCalls \cup KeyCalls
    /\ output = <<>>

\* attr.serialize(v)
Serialize(now) ==
    /\ pc = "call" /\ input.op = "roundtrip"
    /\ output' = <<ScalarSerialize(input.kind, input.a, now)>>
    /\ pc' = "serialized"
    /\ UNCHANGED <<classes, heap, input>>

\* attr.deserialize(attr.serialize(v))
Deserialize ==
    /\ pc = "serialized"
    /\ output' = Append(output, ScalarDeserialize(input.kind, output[1]))
    /\ pc' = "done"
    /\ UNCHANGED <<classes, heap, input>>

\* attr.serialize of two sets holding the same elements
SerializeSets(now) ==
    /\ pc = "call" /\ input.op = "sets"
    /\ output' = <<ScalarSerialize(input.kind, input.a, now),
                   ScalarSerialize(input.kind, input.b, now)>>
    /\ pc' = "done"
    /\ UNCHANGED <<classes, heap, input>>

\* Both registries asked about one value.
Infer ==
    /\ pc = "call" /\ input.op = "infer"
    /\ output' = <<get_class_for_serialize(input.a),
                   get_key_for_serialize(input.a)>>
    /\ pc' = "done"
    /\ UNCHANGED <<classes, heap, input>>

\* key.serialize(value)
SerializeKey ==
    /\ pc = "call" /\ input.op = "key"
    /\ output' = <<KeyAttribute_serialize(input.b, input.a)>>
    /\ pc' = "done"
    /\ UNCHANGED <<classes, heap, input>>

ValueNext ==
    \/ \E now \in Clock : Serialize(now)
    \/ Deserialize
    \/ \E now \in Clock : SerializeSets(now)
    \/ Infer
    \/ SerializeKey

SpecValue == ValueInit /\ [][ValueNext]_vars

\* C3 (round trip): for every scalar/collection attribute type and every
\* valid native value v, deserialize(serialize(v)) returns without error and
\* equals v.
RoundTrip ==
    (input.op = "roundtrip" /\ pc = "done") =>
        /\ ~IsErr(output[2])
        /\ PyEq(output[2], input.a)

\* C3 without the Number type: the round trip of the other types.
RoundTripOthers ==
    (input.op = "roundtrip" /\ pc = "done" /\ input.kind # "Number") =>
        /\ ~IsErr(output[2])
        /\ PyEq(output[2], input.a)

IsSortedJsonList(x, elems) ==
    /\ x.t = "list"
    /\ Range(x.v) = {json_dumps(e) : e \in elems}
    /\ Len(x.v) = Cardinality(elems)
    /\ \A i \in 1..(Len(x.v) - 1) : PyLess(json_loads(x.v[i]), json_loads(x.v[i + 1]))

ClaimedTag(ty) ==
    CASE ty \in {"dict", "MapAttribute"} -> Tag("M")
      [] ty \in {"list", "set"} -> Tag("L")
      [] ty = "bool" -> Tag("BOOL")
      [] ty \in {"int", "float", "Decimal"} -> Tag("N")
      [] ty = "str" -> Tag("S")
      [] ty = "NoneType" -> Tag("NULL")
      [] OTHER -> Err("ValueError")

\* C7 (raw type inference): the attribute type and the wire tag chosen for a
\* value follow the claimed mapping and agree; a value of another type is an
\* error in both, and none is accepted by one and rejected by the other.
InferenceAgrees ==
    (input.op = "infer" /\ pc = "done") =>
        /\ output[2] = ClaimedTag(input.a.t)
        /\ IsErr(output[1]) <=> IsErr(output[2])
        /\ ~IsErr(output[1]) =>
              Tag(ATTR_TYPE_MAP[attr_type(output[1].v)]) = output[2]

RECURSIVE Join(_, _)

\* The texts of parts joined by the separator sep.
Join(parts, sep) ==
    IF parts = <<>> THEN <<>>
    ELSE IF Len(parts) = 1 THEN parts[1]
    ELSE parts[1] \o sep \o Join(Tail(parts), sep)

\* <<x>> for a part that is present, <<>> for one that is absent (None).
Part(x) == IF x.t # "NoneType" THEN <<x.v>> ELSE <<>>

\* C16 (composite key serialize): the fixed value stands in for a dynamic
\* value that is not supplied, and the result is the parts that are present,
\* in the order prefix, value, suffix, joined by the separator; an absent
\* part leaves neither text nor separator.
KeyComposition ==
    (input.op = "key" /\ pc = "done") =>
        LET k == input.b.v
            value == IF ~Truthy(input.a) /\ k.fixed_value.t # "NoneType"
                     THEN k.fixed_value
                     ELSE input.a
            text == Join(Part(k.prefix) \o Part(value) \o Part(k.suffix),
                         k.separator.v)
        IN output[1] = IF text = <<>> THEN PyNone ELSE StrV(text)

----------------------------------------------------------------------------
(* Containers: construction, MapAttribute.serialize and deserialize.  A     *)
(* dict is a function from its keys; iteration visits the keys in the order *)
(* of Keys.  A call returns its value or Err(...) for the exception raised. *)

\* The keys a call may carry: the python names, the override and other names.
Keys == FieldNames \o <<"w", "zz", "default", "attr_name", "_user_instantiated">>

Restrict(f, S) == [k \in DOMAIN f \cap S |-> f[k]]

\* An instance of class c holding attribute_values.
NodeV(cs, c, values) ==
    [t |-> IF IsMapClass(cs, c) THEN "MapAttribute" ELSE "AttributeContainer",
     v |-> [cls |-> c, values |-> values]]

\* One entry of a stored document: {tag: value}.
Item(tag, value) == [t |-> "item", v |-> [tag |-> tag, value |-> value]]

\* cls.get_attributes().get(key): the class attribute, 0 for None.
get_attribute(cs, c, key) == IF key \in Names THEN cs[c].attrs[key] ELSE 0

\* cls._dynamo_to_python_attr(dynamo_key)
dynamo_to_python_attr(cs, c, dynamo_key) ==
    IF dynamo_key \in Wires /\ cs[c].d2p[dynamo_key] # None
    THEN cs[c].d2p[dynamo_key]
    ELSE dynamo_key

RECURSIVE MapAttribute_init(_, _, _, _)
RECURSIVE AttributeContainer_init(_, _, _, _, _)
RECURSIVE AttributeContainer_set_attributes(_, _, _, _, _, _)
RECURSIVE Attribute_set(_, _, _, _, _, _)

\* setattr(self, name, value) through the descriptor: MapAttribute.__set__
\* turns a Mapping into an instance of the field's class, Attribute.__set__
\* stores the value under the python name the wire name maps to.
Attribute_set(h, cs, c, attr, values, value) ==
    LET v == IF h[attr].kind = "Map" /\ value.t = "dict"
             THEN MapAttribute_init(h, cs, h[attr].cls, value.v)
             ELSE value
    IN IF IsErr(v) THEN v
       ELSE DictV(Put(values,
                      dynamo_to_python_attr(cs, c, attr_name(h[attr])), v))

RECURSIVE set_defaults(_, _, _, _, _, _)

\* AttributeContainer._set_defaults, from the i-th name on.
set_defaults(h, cs, c, user_instantiated, values, i) ==
    IF i > Len(FieldNames) \/ FieldNames[i] \notin Names THEN DictV(values)
    ELSE LET name == FieldNames[i]
             attr == cs[c].attrs[name]
         IN IF attr = 0
            THEN set_defaults(h, cs, c, user_instantiated, values, i + 1)
            ELSE
            LET default == IF user_instantiated
                              /\ h[attr].default_for_new.t # "NoneType"
                           THEN h[attr].default_for_new
                           ELSE h[attr].default
                set == IF default.t # "NoneType"
                       THEN Attribute_set(h, cs, c, attr, values, default)
                       ELSE DictV(values)
            IN IF IsErr(set) THEN set
               ELSE set_defaults(h, cs, c, user_instantiated, set.v, i + 1)

\* A faulty variant of AttributeContainer_set_attributes: a name that is not an
\* attribute of the class is passed over.
set_attributes_unchecked(h, cs, c, values, attributes, i) ==
    IF i > Len(Keys) THEN DictV(values)
    ELSE LET name == Keys[i] IN
         IF name \notin DOMAIN attributes \/ get_attribute(cs, c, name) = 0
         THEN AttributeContainer_set_attributes(h, cs, c, values, attributes,
                                                i + 1)
         ELSE LET set == Attribute_set(h, cs, c, get_attribute(cs, c, name),
                                       values, attributes[name])
              IN IF IsErr(set) THEN set
                 ELSE AttributeContainer_set_attributes(h, cs, c, set.v,
                                                        attributes, i + 1)

\* AttributeContainer._set_attributes, from the i-th key on.
AttributeContainer_set_attributes(h, cs, c, values, attributes, i) ==
    IF i > Len(Keys) THEN DictV(values)
    ELSE LET name == Keys[i] IN
         IF name \notin DOMAIN attributes
         THEN AttributeContainer_set_attributes(h, cs, c, values, attributes,
                                                i + 1)
         ELSE IF get_attribute(cs, c, name) = 0 THEN Err("ValueError")
         ELSE LET set == Attribute_set(h, cs, c, get_attribute(cs, c, name),
                                       values, attributes[name])
              IN IF IsErr(set) THEN set
                 ELSE AttributeContainer_set_attributes(h, cs, c, set.v,
                                                        attributes, i + 1)

\* MapAttribute._set_attributes: a raw instance stores every pair in
\* attribute_values (MapAttribute.__setattr__).
MapAttribute_set_attributes(h, cs, c, values, attributes, i) ==
    IF is_raw(c)
    THEN DictV([k \in DOMAIN values \cup DOMAIN attributes |->
                  IF k \in DOMAIN attributes THEN attributes[k] ELSE values[k]])
    ELSE AttributeContainer_set_attributes(h, cs, c, values, attributes, i)

\* self._set_attributes(**attributes), by the class of self.
set_attributes(h, cs, c, values, attributes, i) ==
    IF IsMapClass(cs, c)
    THEN MapAttribute_set_attributes(h, cs, c, values, attributes, i)
    ELSE AttributeContainer_set_attributes(h, cs, c, values, attributes, i)

\* AttributeContainer.__init__: the new instance, or the exception.
AttributeContainer_init(h, cs, c, user_instantiated, attributes) ==
    LET defaults == set_defaults(h, cs, c, user_instantiated, EmptyDict, 1) IN
    IF IsErr(defaults) THEN defaults
    ELSE LET set == set_attributes(h, cs, c, defaults.v, attributes, 1) IN
         IF IsErr(set) THEN set ELSE NodeV(cs, c, set.v)

\* The binding of the keywords of a call to AttributeContainer.__init__.
user_instantiated_of(attributes) ==
    IF "_user_instantiated" \in DOMAIN attributes
    THEN Truthy(attributes["_user_instantiated"])
    ELSE TRUE

\* MapAttribute.__init__: the new instance, or the exception.
MapAttribute_init(h, cs, c, kwargs) ==
    LET attribute_kwargs == Restrict(kwargs, attribute_args)
        attributes == Restrict(kwargs, DOMAIN kwargs \ attribute_args)
        self == AttributeContainer_init(
                    h, cs, c, user_instantiated_of(attributes),
                    Restrict(attributes,
                             DOMAIN attributes \ {"_user_instantiated"}))
    IN IF IsErr(self) THEN self
       ELSE IF /\ DOMAIN attribute_kwargs # {}
               /\ \/ DOMAIN attributes # {}
                  \/ is_raw(c)
                  \/ \A arg \in DOMAIN attribute_kwargs :
                        get_attribute(cs, c, arg) # 0
       THEN LET set == set_attributes(h, cs, c, self.v.values,
                                      attribute_kwargs, 1)
            IN IF IsErr(set) THEN set ELSE NodeV(cs, c, set.v)
       ELSE self

\* type(c)(**kwargs)
New(h, cs, c, kwargs) ==
    IF IsMapClass(cs, c) THEN MapAttribute_init(h, cs, c, kwargs)
    ELSE AttributeContainer_init(
             h, cs, c, user_instantiated_of(kwargs),
             Restrict(kwargs, DOMAIN kwargs \ {"_user_instantiated"}))

\* A faulty variant of should_skip: nothing is skipped.
should_skip_nothing(c, value) == FALSE

\* MapAttribute._should_skip
should_skip(c, value) == ~is_raw(c) /\ value.t = "NoneType"

RECURSIVE MapAttribute_serialize(_, _, _, _)
RECURSIVE SerializeItems(_, _, _, _, _, _)

\* attr_class.serialize(val), attr_class being [kind, cls].
serialize_with(h, cs, attr_class, val) ==
    IF attr_class.kind # "Map" THEN ScalarSerialize(attr_class.kind, val, 0)
    ELSE MapAttribute_serialize(h, cs, attr_class.cls, val)

\* What _get_serialize_class / _get_deserialize_class hand back: the kind and
\* class of an attribute instance, None, or the exception raised.
NoAttribute == [kind |-> "None", cls |-> 0]
Raised == [kind |-> "Error", cls |-> 0]

\* MapAttribute._get_serialize_class
get_serialize_class(h, cs, c, key, value) ==
    IF ~is_raw(c)
    THEN LET attr == get_attribute(cs, c, key) IN
         IF attr = 0 THEN NoAttribute
         ELSE [kind |-> h[attr].kind, cls |-> h[attr].cls]
    ELSE LET found == get_class_for_serialize(value) IN
         IF IsErr(found) THEN Raised
         ELSE IF value.t = "MapAttribute"
         THEN [kind |-> "Map", cls |-> value.v.cls]
         ELSE [kind |-> found.v, cls |-> MapAttributeClass]

\* The loop of MapAttribute.serialize, from the i-th key on; values is what
\* `for key in values` / `values[key]` reads.
SerializeItems(h, cs, c, values, rval, i) ==
    IF i > Len(Keys) THEN DictV(rval)
    ELSE LET key == Keys[i] IN
         IF key \notin DOMAIN values
         THEN SerializeItems(h, cs, c, values, rval, i + 1)
         ELSE
         LET val == values[key] IN
         IF should_skip(c, val)
         THEN SerializeItems(h, cs, c, values, rval, i + 1)
         ELSE
         LET attr_class == get_serialize_class(h, cs, c, key, val) IN
         IF attr_class = NoAttribute
         THEN SerializeItems(h, cs, c, values, rval, i + 1)
         ELSE IF attr_class = Raised THEN Err("ValueError")
         ELSE
         LET attr == get_attribute(cs, c, key)
             name == IF attr # 0 THEN attr_name(h[attr]) ELSE key
             serialized == serialize_with(h, cs, attr_class, val)
         IN IF IsErr(serialized) THEN serialized
            ELSE IF should_skip(c, serialized)
            THEN SerializeItems(h, cs, c, values, rval, i + 1)
            ELSE SerializeItems(h, cs, c, values,
                                Put(rval, name, serialized), i + 1)

\* MapAttribute.serialize on an instance of class c.
MapAttribute_serialize(h, cs, c, values) ==
    IF values.t = "dict" THEN SerializeItems(h, cs, c, values.v, EmptyDict, 1)
    ELSE IF values.t = "MapAttribute"
    THEN SerializeItems(h, cs, c, values.v.values, EmptyDict, 1)
    ELSE Err("TypeError")

DESERIALIZE_CLASS_MAP ==
    [tag \in {"L", "N", "S", "BOOL", "M", "NULL"} |->
        CASE tag = "L" -> "List"
          [] tag = "N" -> "Number"
          [] tag = "S" -> "Unicode"
          [] tag = "BOOL" -> "Boolean"
          [] tag = "M" -> "Map"
          [] tag = "NULL" -> "Null"]

\* _get_value_for_deserialize
get_value_for_deserialize(value) ==
    IF value.v.tag = "NULL" THEN PyNone ELSE value.v.value

\* _get_class_for_deserialize
get_class_for_deserialize(value) ==
    IF value.v.tag \notin DOMAIN DESERIALIZE_CLASS_MAP THEN Err("ValueError")
    ELSE AttributeOf(DESERIALIZE_CLASS_MAP[value.v.tag])

\* MapAttribute._get_deserialize_class: as get_serialize_class.
get_deserialize_class(h, cs, c, key, value) ==
    IF ~is_raw(c)
    THEN LET attr == get_attribute(cs, c, key) IN
         IF attr = 0 THEN NoAttribute
         ELSE [kind |-> h[attr].kind, cls |-> h[attr].cls]
    ELSE LET found == get_class_for_deserialize(value) IN
         IF IsErr(found) THEN Raised
         ELSE [kind |-> found.v, cls |-> MapAttributeClass]

RECURSIVE MapAttribute_deserialize(_, _, _, _)
RECURSIVE DeserializeItems(_, _, _, _, _, _)

\* attr_class.deserialize(attr_value)
deserialize_with(h, cs, attr_class, attr_value) ==
    IF attr_class.kind # "Map"
    THEN ScalarDeserialize(attr_class.kind, attr_value)
    ELSE MapAttribute_deserialize(h, cs, attr_class.cls, attr_value)

\* The loop of MapAttribute.deserialize, from the i-th key on.
DeserializeItems(h, cs, c, values, deserialized_dict, i) ==
    IF i > Len(Keys) THEN DictV(deserialized_dict)
    ELSE IF Keys[i] \notin DOMAIN values
    THEN DeserializeItems(h, cs, c, values, deserialized_dict, i + 1)
    ELSE
    LET val == values[Keys[i]]
        attr_value == get_value_for_deserialize(val)
        key == dynamo_to_python_attr(cs, c, Keys[i])
        attr_class == get_deserialize_class(h, cs, c, key, val)
    IN IF attr_class = NoAttribute
       THEN DeserializeItems(h, cs, c, values, deserialized_dict, i + 1)
       ELSE IF attr_class = Raised THEN Err("ValueError")
       ELSE
       LET deserialized_value ==
               IF attr_value.t # "NoneType"
               THEN deserialize_with(h, cs, attr_class, attr_value)
               ELSE PyNone
       IN IF IsErr(deserialized_value) THEN deserialized_value
          ELSE DeserializeItems(h, cs, c, values,
                                Put(deserialized_dict, key, deserialized_value),
                                i + 1)

\* MapAttribute.deserialize on an instance of class c: a typed node is
\* rebuilt with type(self)(**deserialized_dict).
MapAttribute_deserialize(h, cs, c, values) ==
    LET deserialized == DeserializeItems(h, cs, c, values.v, EmptyDict, 1) IN
    IF IsErr(deserialized) THEN deserialized
    ELSE IF ~is_raw(c) THEN MapAttribute_init(h, cs, c, deserialized.v)
    ELSE deserialized

----------------------------------------------------------------------------
(* A program that declares three types and then builds, writes and reads    *)
(* nodes:                                                                   *)
(*   class Doc(MapAttribute):       f1 = UnicodeAttribute(attr_name=w,      *)
(*                                       default=d, default_for_new=n)      *)
(*   class Doc2(Doc):               f2 = UnicodeSetAttribute()              *)
(*   class Box(AttributeContainer): f3 = Doc2()                             *)

DocClass == MapAttributeClass + 1
Doc2Class == DocClass + 1
BoxClass == Doc2Class + 1

\* The default / default_for_new arguments an attribute is constructed with.
DefaultArgs ==
    {PyNone, IntV(0), IntV(1), BoolV(FALSE), StrV(<<>>), StrV(<<"d">>)}

\* The arguments Doc.f1 is constructed with.
DocDefaults ==
    {<<PyNone, PyNone>>, <<StrV(<<"d">>), PyNone>>, <<PyNone, StrV(<<"n">>)>>,
     <<StrV(<<>>), StrV(<<"n">>)>>}

NoNodeCall == [op |-> "none", cls |-> 0, a |-> PyNone]

NodeInit ==
    /\ Imported
    /\ pc = "declare"
    /\ input = NoNodeCall
    /\ output = <<>>

DeclareDoc(w, default, default_for_new) ==
    /\ NumTypes = 0
    /\ ~DefaultsConflict(default, default_for_new)
    /\ Declare(MapAttributeClass, "f1", Len(heap) + 1,
               Append(heap, AttributeInit("Unicode", default, default_for_new,
                                          w)))

DeclareDoc2 ==
    /\ Len(classes) = DocClass
    /\ Declare(DocClass, "f2", Len(heap) + 1,
               Append(heap, AttributeInit("UnicodeSet", PyNone, PyNone, None)))

DeclareBox ==
    /\ Len(classes) = Doc2Class
    /\ Declare(AttributeContainerClass, "f3", Len(heap) + 1,
               Append(heap, MapAttributeInit(Doc2Class, None)))

\* The three types are declared and no call has been made.
Declared == Len(classes) = BoxClass /\ pc = "declare"

\* The value a call passes under a keyword.
KwValue(k) ==
    CASE k = "f2" -> SetV(<<StrV(<<"a">>)>>)
      [] k \in {"zz", "default", "attr_name"} -> IntV(5)
      [] k \in {"f1", "f3"} -> StrV(<<"v">>)

KwNames == {"f1", "f2", "f3", "zz", "default", "attr_name"}

\* The keyword arguments of a constructor call.
ConstructKwargs ==
    {[k \in S |-> KwValue(k)] : S \in SUBSET KwNames}
        \cup {[k \in S \cup {"_user_instantiated"} |->
                 IF k = "_user_instantiated" THEN BoolV(b) ELSE KwValue(k)] :
              S \in SUBSET KwNames, b \in BOOLEAN}

\* An attribute constructor: Attribute.__init__(default=..., default_for_new=...).
NewAttribute(kind, default, default_for_new) ==
    /\ Declared
    /\ input' = [op |-> "attribute", cls |-> 0,
                 a |-> DictV([default |-> default,
                              default_for_new |-> default_for_new])]
    /\ output' = <<IF DefaultsConflict(default, default_for_new)
                   THEN Err("ValueError")
                   ELSE [t |-> "object",
                         v |-> AttributeInit(kind, default, default_for_new,
                                             None)]>>
    /\ pc' = "done"
    /\ UNCHANGED <<classes, heap>>

\* c(**kwargs)
Construct(c, kwargs) ==
    /\ Declared
    /\ input' = [op |-> "construct", cls |-> c, a |-> DictV(kwargs)]
    /\ output' = <<New(heap, classes, c, kwargs)>>
    /\ pc' = "done"
    /\ UNCHANGED <<classes, heap>>

\* The native values handed to serialize.
NativeDocs ==
    {[k \in S |-> f[k]] :
        S \in SUBSET {"f1", "f2", "zz"},
        f \in [f1 : {PyNone, StrV(<<>>), StrV(<<"v">>)},
               f2 : {PyNone, SetV(<<>>), SetV(<<StrV(<<"a">>)>>)},
               zz : {PyNone, IntV(1), DictV([zz |-> SetV(<<>>)])}]}

\* c().serialize(values)
SerializeNode(c, values) ==
    /\ Declared
    /\ IsMapClass(classes, c)
    /\ input' = [op |-> "serialize", cls |-> c, a |-> DictV(values)]
    /\ output' = <<MapAttribute_serialize(heap, classes, c, DictV(values))>>
    /\ pc' = "done"
    /\ UNCHANGED <<classes, heap>>

\* The stored documents handed to deserialize.
StoredDocs ==
    {[k \in S |-> f[k]] :
        S \in SUBSET {"f1", "w", "f2", "zz"},
        f \in [f1 : {Item("S", StrV(<<"p">>))},
               w : {Item("S", StrV(<<"q">>)), Item("NULL", BoolV(TRUE))},
               f2 : {Item("SS", SetV(<<StrV(<<"a">>)>>)),
                     Item("L", ListV(<<>>))},
               zz : {Item("N", StrV(<<"1">>)),
                     Item("M", DictV([zz |-> Item("S", StrV(<<"r">>))]))}]}

\* c().deserialize(values)
DeserializeNode(c, values) ==
    /\ Declared
    /\ IsMapClass(classes, c)
    /\ input' = [op |-> "deserialize", cls |-> c, a |-> DictV(values)]
    /\ output' = <<MapAttribute_deserialize(heap, classes, c, DictV(values))>>
    /\ pc' = "done"
    /\ UNCHANGED <<classes, heap>>

NodeNext ==
    \/ \E w \in Overrides, dd \in DocDefaults : DeclareDoc(w, dd[1], dd[2])
    \/ DeclareDoc2
    \/ DeclareBox
    \/ \E kind \in {"Unicode", "Number"}, d \in DefaultArgs, n \in DefaultArgs :
          NewAttribute(kind, d, n)
    \/ \E c \in 2..Len(classes), kwargs \in ConstructKwargs : Construct(c, kwargs)
    \/ \E c \in 2..Len(classes), values \in NativeDocs : SerializeNode(c, values)
    \/ \E c \in 2..Len(classes), values \in StoredDocs :
          DeserializeNode(c, values)

SpecNode == NodeInit /\ [][NodeNext]_vars

\* The declared fields of class c.
DeclaredFields(c) == {n \in Names : classes[c].attrs[n] # 0}

\* C4 (omission): serialize on a schema-bearing node writes no entry for a
\* declared field whose native value is None, none for a field whose
\* serialized value is None, and no entry holding None at all; on a raw node
\* a key whose native value is None is kept, with the null attribute's marker.
Omission ==
    (input.op = "serialize" /\ ~IsErr(output[1])) =>
        LET c == input.cls
            values == input.a.v
            rval == output[1].v
        IN IF ~is_raw(c)
           THEN /\ \A n \in DeclaredFields(c) \cap DOMAIN values :
                     LET attr == heap[classes[c].attrs[n]] IN
                     (\/ values[n].t = "NoneType"
                      \/ ScalarSerialize(attr.kind, values[n], 0).t = "NoneType")
                        => attr_name(attr) \notin DOMAIN rval
                /\ \A k \in DOMAIN rval : rval[k].t # "NoneType"
           ELSE \A k \in DOMAIN values :
                    values[k].t = "NoneType" =>
                        k \in DOMAIN rval /\ rval[k] = NullAttribute_serialize(PyNone)

\* Doc2 has serialized a document whose f1 is None and whose f2 is the empty
\* set, f1 being stored as "w".
OmissionWitness ==
    /\ input.op = "serialize" /\ input.cls = Doc2Class
    /\ DOMAIN input.a.v = {"f1", "f2"}
    /\ input.a.v["f1"] = PyNone
    /\ input.a.v["f2"] = SetV(<<>>)
    /\ classes[Doc2Class].d2p["w"] = "f1"
    /\ output = <<DictV(EmptyDict)>>

\* C6 (empty sets are never written): whatever node serializes, no entry of
\* the output is an empty set or an empty list standing for one.
EmptySetsNeverWritten ==
    (input.op = "serialize" /\ ~IsErr(output[1])) =>
        \A k \in DOMAIN output[1].v :
            ~(output[1].v[k].t \in {"set", "list"} /\ output[1].v[k].v = <<>>)

\* The keywords of a constructor call that name no declared field.
Undeclared(c, kwargs) ==
    {k \in DOMAIN kwargs \ {"_user_instantiated"} :
        get_attribute(classes, c, k) = 0}

\* C8 as stated (rejection of unknown fields): a schema-bearing container
\* called with any keyword that is not a declared field raises ValueError;
\* a raw MapAttribute accepts every keyword.
UnknownFieldsRejected ==
    input.op = "construct" =>
        IF is_raw(input.cls) THEN ~IsErr(output[1])
        ELSE Undeclared(input.cls, input.a.v) # {} =>
                output[1] = Err("ValueError")

\* C8 (rejection of unknown fields, as the constructors behave): an
\* AttributeContainer subclass raises ValueError exactly when a keyword names
\* no declared field; a subclassed MapAttribute raises it exactly when an
\* undeclared keyword is not an argument name of Attribute.__init__, or when
\* an undeclared keyword with such a name comes with a keyword that is not
\* such a name; a raw MapAttribute accepts every keyword.
UnknownFieldsRejectedOrKept ==
    input.op = "construct" =>
        LET c == input.cls
            kwargs == input.a.v
            undeclared == Undeclared(c, kwargs)
            raised == output[1] = Err("ValueError")
        IN /\ IsErr(output[1]) => raised
           /\ IF is_raw(c) THEN ~raised
              ELSE IF ~IsMapClass(classes, c) THEN raised <=> undeclared # {}
              ELSE raised <=>
                     \/ undeclared \ attribute_args # {}
                     \/ /\ undeclared \cap attribute_args # {}
                        /\ DOMAIN kwargs \ attribute_args # {}

\* Doc(default=5, attr_name=5) has been constructed.
UnknownFieldsWitness ==
    /\ input.op = "construct" /\ input.cls = DocClass
    /\ DOMAIN input.a.v = {"default", "attr_name"}
    /\ ~IsErr(output[1])
    /\ "default" \notin DOMAIN output[1].v.values

\* The declared fields of c that have a for-new default and no plain one.
ForNewOnly(c) ==
    {n \in DeclaredFields(c) :
        /\ heap[classes[c].attrs[n]].default_for_new.t # "NoneType"
        /\ heap[classes[c].attrs[n]].default.t = "NoneType"}

\* C9 (for-new defaults): a container constructed with
\* _user_instantiated=False, and the node MapAttribute.deserialize builds for
\* a schema-bearing class, leaves unset every field that has only a for-new
\* default and no value in the payload.
ForNewDefaultsOnlyWhenNew ==
    LET c == input.cls
        payload == input.a.v
        rehydrated ==
            \/ /\ input.op = "construct"
               /\ "_user_instantiated" \in DOMAIN payload
               /\ payload["_user_instantiated"] = BoolV(FALSE)
            \/ input.op = "deserialize" /\ ~is_raw(c)
    IN (rehydrated /\ ~IsErr(output[1])) =>
          \A n \in ForNewOnly(c) :
              (/\ n \notin DOMAIN payload
               /\ attr_name(heap[classes[c].attrs[n]]) \notin DOMAIN payload)
                 => n \notin DOMAIN output[1].v.values

\* C10 (conflicting defaults): an attribute constructor given both default
\* and default_for_new (neither None) raises ValueError, and no attribute
\* object has both set.
NoConflictingDefaults ==
    /\ (/\ input.op = "attribute"
        /\ input.a.v.default.t # "NoneType"
        /\ input.a.v.default_for_new.t # "NoneType")
          => output[1] = Err("ValueError")
    /\ \A o \in 1..Len(heap) :
          \/ heap[o].default.t = "NoneType"
          \/ heap[o].default_for_new.t = "NoneType"

\* The declared fields of c constructed without a default of either kind.
NoDefault(c) ==
    {n \in DeclaredFields(c) :
        /\ heap[classes[c].attrs[n]].default_for_new.t = "NoneType"
        /\ heap[classes[c].attrs[n]].default.t = "NoneType"}

\* C12 (unknown wire names on decode): the node MapAttribute.deserialize
\* builds for a schema-bearing class holds declared fields only, and a field
\* without defaults is set only when the payload has an entry under the
\* field's wire name.
UnknownWireNamesDropped ==
    (input.op = "deserialize" /\ ~is_raw(input.cls) /\ ~IsErr(output[1])) =>
        LET c == input.cls
            values == output[1].v.values
        IN /\ DOMAIN values \subseteq DeclaredFields(c)
           /\ \A n \in NoDefault(c) \cap DOMAIN values :
                 attr_name(heap[classes[c].attrs[n]]) \in DOMAIN input.a.v

----------------------------------------------------------------------------
(* Registration run again, and registration of subtypes *)

\* Whether class c resolves every wire name in cs2 as it does in cs1.
SameLookup(cs1, c1, cs2, c2) ==
    \A w \in Wires :
        dynamo_to_python_attr(cs1, c1, w) = dynamo_to_python_attr(cs2, c2, w)

\* The type a step declares is a subtype with an empty body.
DeclaresSubtype ==
    /\ Len(classes') = Len(classes) + 1
    /\ classes'[Len(classes')].body = NoLocals

----------------------------------------------------------------------------
(* Instances with identity.  An instance is an object of the heap: its      *)
(* values field is attribute_values, its dict field the other entries of    *)
(* its __dict__.  A value may be a reference to an instance.  A call that   *)
(* may change objects gives the new heap and the value returned, Err(...)   *)
(* for the exception raised.                                                *)

Ref(o) == [t |-> "ref", v |-> o]

TimeDeltaV(seconds) == [t |-> "timedelta", v |-> seconds]

Outcome(h, r) == [h |-> h, r |-> r]

\* A new instance of class c that owns attribute_values.
Instance(cs, c, values) ==
    [MapAttributeInit(c, None) EXCEPT
        !.kind = IF IsMapClass(cs, c) THEN "Map" ELSE "Container",
        !.values = values]

\* What the class of a MapAttribute defines besides the declared fields:
\* Attribute.null and the methods.
ClassDict ==
    [null |-> BoolV(FALSE), serialize |-> [t |-> "method", v |-> "serialize"]]

\* Attribute._is_map_attribute_class_object
is_map_attribute_class_object(o) == o.kind = "Map" /\ ~is_attribute_container(o)

\* Attribute.__set__: a converted MapAttribute stores nothing.
Attribute__set__(h, cs, attr, instance, value) ==
    IF ~is_map_attribute_class_object(h[instance])
    THEN LET name == dynamo_to_python_attr(cs, h[instance].cls,
                                           attr_name(h[attr]))
         IN Outcome([h EXCEPT ![instance].values = Put(@, name, value)], PyNone)
    ELSE Outcome(h, PyNone)

\* A faulty variant of TTLAttribute__set__: the value is stored as given.
TTLAttribute__set__unchecked(h, cs, attr, instance, value, now) ==
    Attribute__set__(h, cs, attr, instance, value)

\* TTLAttribute.__set__: the value is normalized, then stored.
TTLAttribute__set__(h, cs, attr, instance, value, now) ==
    LET normal == TTLAttribute_normalize(value, now) IN
    IF IsErr(normal) THEN Outcome(h, normal)
    ELSE Attribute__set__(h, cs, attr, instance, normal)

\* MapAttribute.__set__: a Mapping becomes a new instance of the field's
\* class, anything else is stored as it is.
MapAttribute__set__(h, cs, attr, instance, value) ==
    IF value.t = "dict"
    THEN LET node == MapAttribute_init(h, cs, h[attr].cls, value.v) IN
         IF IsErr(node) THEN Outcome(h, node)
         ELSE Attribute__set__(
                  Append(h, Instance(cs, h[attr].cls, node.v.values)),
                  cs, attr, instance, Ref(Len(h) + 1))
    ELSE Attribute__set__(h, cs, attr, instance, value)

\* attr.__set__(instance, value) of the attribute's class.
descriptor_set(h, cs, attr, instance, value, now) ==
    CASE h[attr].kind = "TTL" ->
            TTLAttribute__set__(h, cs, attr, instance, value, now)
      [] h[attr].kind = "Map" ->
            MapAttribute__set__(h, cs, attr, instance, value)
      [] OTHER -> Attribute__set__(h, cs, attr, instance, value)

\* object.__setattr__: a declared field is a data descriptor of the class;
\* any other name is written into the instance's __dict__, and writing
\* attribute_values there gives the instance that dict.
object__setattr__(h, cs, o, name, value, now) ==
    LET attr == get_attribute(cs, h[o].cls, name) IN
    IF attr # 0 THEN descriptor_set(h, cs, attr, o, value, now)
    ELSE IF name = "attribute_values"
    THEN Outcome([h EXCEPT ![o].container = TRUE, ![o].values = value.v],
                 PyNone)
    ELSE Outcome([h EXCEPT ![o].dict = Put(@, name, value)], PyNone)

\* MapAttribute.__setattr__
MapAttribute__setattr__(h, cs, o, name, value, now) ==
    IF is_raw(h[o].cls) /\ is_attribute_container(h[o])
    THEN Outcome([h EXCEPT ![o].values = Put(@, name, value)], PyNone)
    ELSE object__setattr__(h, cs, o, name, value, now)

\* setattr(o, name, value)
setattr(h, cs, o, name, value, now) ==
    IF h[o].kind = "Map"
    THEN MapAttribute__setattr__(h, cs, o, name, value, now)
    ELSE object__setattr__(h, cs, o, name, value, now)

\* Attribute.__get__: a converted MapAttribute answers with its local copy
\* of the attribute, a container with the stored value or None.
Attribute__get__(h, cs, attr, instance) ==
    LET name == dynamo_to_python_attr(cs, h[instance].cls, attr_name(h[attr]))
        local == IF name \in Names /\ h[instance].locals[name] # 0
                 THEN Ref(h[instance].locals[name])
                 ELSE IF name \in DOMAIN h[instance].dict
                 THEN h[instance].dict[name]
                 ELSE PyNone
    IN IF is_map_attribute_class_object(h[instance])
       THEN IF Truthy(local) THEN local ELSE Ref(attr)
       ELSE IF name \in DOMAIN h[instance].values
       THEN h[instance].values[name]
       ELSE PyNone

\* object.__getattribute__: a data descriptor of the class, then the
\* instance's __dict__, then what else the class defines.
object__getattribute__(h, cs, o, name) ==
    LET attr == get_attribute(cs, h[o].cls, name) IN
    IF attr # 0 THEN Attribute__get__(h, cs, attr, o)
    ELSE IF name = "attribute_values" /\ is_attribute_container(h[o])
    THEN DictV(h[o].values)
    ELSE IF name \in DOMAIN h[o].dict THEN h[o].dict[name]
    ELSE IF h[o].kind = "Map" /\ name \in DOMAIN ClassDict THEN ClassDict[name]
    ELSE Err("AttributeError")

\* MapAttribute.__getattr__
MapAttribute__getattr__(h, cs, o, attr) ==
    IF /\ is_raw(h[o].cls)
       /\ is_attribute_container(h[o])
       /\ attr \in DOMAIN h[o].values
    THEN h[o].values[attr]
    ELSE Err("AttributeError")

\* getattr(o, name): __getattr__ is asked when the normal lookup fails.
getattr(h, cs, o, name) ==
    LET r == object__getattribute__(h, cs, o, name) IN
    IF r = Err("AttributeError") /\ h[o].kind = "Map"
    THEN MapAttribute__getattr__(h, cs, o, name)
    ELSE r

\* MapAttribute.__getitem__
MapAttribute__getitem__(h, cs, o, item) ==
    IF is_attribute_container(h[o])
    THEN IF item \in DOMAIN h[o].values THEN h[o].values[item]
         ELSE Err("KeyError")
    ELSE IF is_raw(h[o].cls) THEN getattr(h, cs, o, item)
    ELSE IF get_attribute(cs, h[o].cls, item) # 0 THEN getattr(h, cs, o, item)
    ELSE Err("AttributeError")

\* MapAttribute.__setitem__
MapAttribute__setitem__(h, cs, o, item, value, now) ==
    IF ~is_attribute_container(h[o]) THEN Outcome(h, Err("TypeError"))
    ELSE IF is_raw(h[o].cls)
    THEN Outcome([h EXCEPT ![o].values = Put(@, item, value)], PyNone)
    ELSE IF get_attribute(cs, h[o].cls, item) # 0
    THEN setattr(h, cs, o, item, value, now)
    ELSE Outcome(h, Err("AttributeError"))

----------------------------------------------------------------------------
(* A program that works on instances:                                       *)
(*     class Doc(MapAttribute):     f1 = UnicodeAttribute(attr_name=w)      *)
(*     class Timed(Doc):            f2 = TTLAttribute()                     *)
(*     class Box(AttributeContainer): f3 = Timed()                          *)
(* then instances are created, written and read, attribute-style and        *)
(* item-style.  One program works on instances of MapAttribute and Timed,   *)
(* another on Boxes, the Timed instances they hold and the field object     *)
(* Box.f3, which is an object like the others and takes the same calls.     *)

\* Number of MapAttribute and Timed instances the first program creates.
MaxNodes == 1

\* Number of instances the second program creates.
MaxBoxNodes == MaxNodes + 2

TimedClass == Doc2Class

DeclareTimed ==
    /\ Len(classes) = DocClass
    /\ Declare(DocClass, "f2", Len(heap) + 1,
               Append(heap, AttributeInit("TTL", PyNone, PyNone, None)))

\* The objects that take attribute and item access, and those of them that
\* were created as instances (not bound in a class body).
Objects == {o \in 1..Len(heap) : heap[o].kind \in {"Map", "Container"}}

Instances == {o \in Objects : heap[o].sites = 0}

\* c()
Instantiate(c) ==
    /\ Declared
    /\ LET node == New(heap, classes, c, EmptyDict) IN
       heap' = Append(heap, Instance(classes, c, node.v.values))
    /\ input' = [op |-> "new", cls |-> c, a |-> PyNone]
    /\ output' = <<Ref(Len(heap) + 1)>>
    /\ UNCHANGED <<classes, pc>>

\* The names the programs use.
DataNames == {"f1", "f2", "f3", "zz", "k", "null", "attribute_values"}

\* The names the first program uses on an instance: the fields of its
\* class, an undeclared name, and names the class or the instance already has.
NamesOf(o) ==
    IF is_raw(heap[o].cls) THEN {"k", "null", "attribute_values"}
    ELSE {"f1", "f2", "zz", "attribute_values"}

\* The names the second program uses on an object.
BoxNamesOf(o) ==
    IF heap[o].kind = "Container" THEN {"f3"} ELSE {"f1", "attribute_values"}

\* time.time() is read when a duration is assigned.
ClockFor(value) == IF value.t = "timedelta" THEN Clock ELSE {None}

\* The values assigned to a TTL field.
TTLValues ==
    {PyNone, TimeDeltaV(60), IntV(5),
     DateTimeV(2024, 2, 29, 23, 59, 59, 7, TRUE),
     DateTimeV(2024, 2, 29, 23, 59, 59, 0, FALSE)}

\* The values the program writes under a name of an object.
ValuesOf(o, name) ==
    LET attr == get_attribute(classes, heap[o].cls, name) IN
    CASE attr # 0 /\ heap[attr].kind = "TTL" -> TTLValues
      [] attr # 0 /\ heap[attr].kind = "Map" ->
            {DictV(EmptyDict)}
            \cup {Ref(n) : n \in {i \in Instances :
                                     heap[i].cls = heap[attr].cls}}
      [] attr # 0 /\ heap[attr].kind \notin {"TTL", "Map"} -> {StrV(<<"a">>)}
      [] attr = 0 /\ name = "attribute_values" -> {DictV(EmptyDict)}
      [] OTHER -> {IntV(1)}

Write(op, o, name, value, now, res) ==
    /\ heap' = res.h
    /\ input' = [op |-> op, cls |-> o,
                 a |-> [name |-> name, value |-> value, now |-> now]]
    /\ output' = <<res.r>>
    /\ UNCHANGED <<classes, pc>>

Read(op, o, name, r) ==
    /\ input' = [op |-> op, cls |-> o, a |-> [name |-> name]]
    /\ output' = <<r>>
    /\ UNCHANGED <<classes, heap, pc>>

\* o.name = value
SetAttr(o, name, value, now) ==
    /\ Declared
    /\ Write("setattr", o, name, value, now,
             setattr(heap, classes, o, name, value, now))

\* o[name] = value
SetItem(o, name, value, now) ==
    /\ Declared
    /\ heap[o].kind = "Map"
    /\ Write("setitem", o, name, value, now,
             MapAttribute__setitem__(heap, classes, o, name, value, now))

\* o.name
GetAttr(o, name) ==
    /\ Declared
    /\ Read("getattr", o, name, getattr(heap, classes, o, name))

\* o[name]
GetItem(o, name) ==
    /\ Declared
    /\ heap[o].kind = "Map"
    /\ Read("getitem", o, name,
            MapAttribute__getitem__(heap, classes, o, name))

\* The instances after the step are no more than max.
Within(max) ==
    Cardinality({o \in 1..Len(heap') : /\ heap'[o].kind \in {"Map", "Container"}
                                       /\ heap'[o].sites = 0}) <= max

\* The calls on the given <<object, name>> pairs.
Access(targets, max) ==
    \/ \E t \in targets :
          \E value \in ValuesOf(t[1], t[2]) : \E now \in ClockFor(value) :
             /\ \/ SetAttr(t[1], t[2], value, now)
                \/ SetItem(t[1], t[2], value, now)
             /\ Within(max)
    \/ \E t \in targets :
          \/ GetAttr(t[1], t[2])
          \/ GetItem(t[1], t[2])

DeclareProgram ==
    \/ \E w \in Overrides : DeclareDoc(w, PyNone, PyNone)
    \/ DeclareTimed
    \/ DeclareBox

DataNext ==
    \/ DeclareProgram
    \/ \E c \in {MapAttributeClass, TimedClass} : Instantiate(c) /\ Within(MaxNodes)
    \/ Access({t \in Instances \X DataNames : t[2] \in NamesOf(t[1])},
              MaxNodes)

SpecData == NodeInit /\ [][DataNext]_vars

BoxNext ==
    \/ DeclareProgram
    \/ \E c \in {TimedClass, BoxClass} : Instantiate(c) /\ Within(MaxBoxNodes)
    \/ Access({t \in Objects \X DataNames : t[2] \in BoxNamesOf(t[1])},
              MaxBoxNodes)
    \/ \E c \in 1..Len(classes) : Declared /\ Reregister(c)

SpecBox == NodeInit /\ [][BoxNext]_vars

----------------------------------------------------------------------------
(* Access to instances *)

\* The step is the call op on object o under the name it names.
Calls(ops) == input'.op \in ops

\* name is not a field of o's class, nor a name the class or every instance
\* has besides the fields.
UndeclaredName(o, name) ==
    /\ get_attribute(classes, heap[o].cls, name) = 0
    /\ name \notin DOMAIN ClassDict \cup {"attribute_values"}

\* The instances of declared map types that own attribute_values.
TypedNodes ==
    {o \in Instances : /\ heap[o].kind = "Map"
                       /\ ~is_raw(heap[o].cls)
                       /\ is_attribute_container(heap[o])}

\* C13: on an instance of a declared map type in data mode, every
\* attribute-style or item-style read or write of a name that is not a
\* declared field raises an error and stores nothing.
UndeclaredAccessRaises ==
    [][(/\ Calls({"setattr", "setitem", "getattr", "getitem"})
        /\ input'.cls \in TypedNodes
        /\ UndeclaredName(input'.cls, input'.a.name))
       => (IsErr(output'[1]) /\ heap' = heap)]_vars

\* The raw MapAttribute instances that own attribute_values.
RawNodes ==
    {o \in Instances : /\ heap[o].kind = "Map"
                       /\ is_raw(heap[o].cls)
                       /\ is_attribute_container(heap[o])}

\* C14: in a raw node in data mode, node.k and node[k] read the same value,
\* the one last written under k in either style, for every key, the keys
\* that are names of the class included.
RawAccessEquivalent ==
    \A o \in RawNodes : \A k \in DOMAIN heap[o].values :
        /\ getattr(heap, classes, o, k) = heap[o].values[k]
        /\ MapAttribute__getitem__(heap, classes, o, k) = heap[o].values[k]

\* name is a TTL field of o's class.
IsTTLField(o, name) ==
    /\ get_attribute(classes, heap[o].cls, name) # 0
    /\ heap[get_attribute(classes, heap[o].cls, name)].kind = "TTL"

\* A timezone-aware datetime in UTC, whole seconds.
IsUTCInstant(value) ==
    /\ value.t = "datetime"
    /\ value.v.aware
    /\ value = utcfromtimestamp(timegm(value))

\* What a TTL field holds is unset, None or a UTC instant.
TTLStored ==
    \A o \in Instances : \A name \in Names :
        (IsTTLField(o, name) /\ name \in DOMAIN heap[o].values)
        => \/ heap[o].values[name] = PyNone
           \/ IsUTCInstant(heap[o].values[name])

\* An assignment to a TTL field stores now + d for a duration d, the same
\* instant for an aware datetime, None for None; a naive datetime or a value
\* of another type raises and changes nothing.
TTLAssigned ==
    (/\ Calls({"setattr", "setitem"})
     /\ IsTTLField(input'.cls, input'.a.name))
    => LET o == input'.cls
           name == input'.a.name
           value == input'.a.value
       IN CASE value.t = "timedelta" ->
                  /\ output' = <<PyNone>>
                  /\ heap'[o].values[name] =
                        utcfromtimestamp(input'.a.now + value.v)
            [] value.t = "NoneType" ->
                  /\ output' = <<PyNone>>
                  /\ heap'[o].values[name] = PyNone
            [] value.t = "datetime" /\ value.v.aware ->
                  /\ output' = <<PyNone>>
                  /\ timegm(heap'[o].values[name]) = timegm(value)
            [] OTHER ->
                  /\ output' = <<Err("ValueError")>>
                  /\ heap' = heap

\* C15: after any sequence of assignments to a TTL field of a container the
\* stored value is unset, None or a UTC instant (now + d for a duration d);
\* assigning a naive datetime or a value of another type raises and leaves
\* the stored value as it was.
TTLNormalization == []TTLStored /\ [][TTLAssigned]_vars

\* A naive datetime was assigned to a TTL field that held the instant a
\* duration had stored: the call raised and the instant is still there.
TTLNormalizationWitness ==
    /\ input.op = "setattr"
    /\ input.cls \in Instances
    /\ IsTTLField(input.cls, input.a.name)
    /\ input.a.value.t = "datetime"
    /\ ~input.a.value.v.aware
    /\ output = <<Err("ValueError")>>
    /\ input.a.name \in DOMAIN heap[input.cls].values
    /\ \E now \in Clock :
          heap[input.cls].values[input.a.name] = utcfromtimestamp(now + 60)

----------------------------------------------------------------------------
(* Boxes, the instances they hold and the field object *)

\* C18: an object that has been converted to an attribute never owns
\* attribute_values again, whatever is called on it afterwards.
ModePermanent ==
    [][\A o \in 1..Len(heap) :
          is_map_attribute_class_object(heap[o])
          => is_map_attribute_class_object(heap'[o])]_vars

\* The instances an object holds in its attribute_values.
Held(o) ==
    {heap[o].values[k].v :
        k \in {x \in DOMAIN heap[o].values : heap[o].values[x].t = "ref"}}

\* C20: no instance is held by two parents at once.
ExclusiveOwnership ==
    \A p1, p2 \in Objects : p1 # p2 => Held(p1) \cap Held(p2) = {}

----------------------------------------------------------------------------
(* A program whose types declare several fields with attr_name overrides:   *)
(*     class One(base):   f1 = UnicodeAttribute(attr_name=a)                *)
(*     class Two(One):    f2 = UnicodeAttribute(attr_name=b)                *)
(*     class Three(Two):  f3 = UnicodeAttribute(attr_name=c)                *)
(* with base AttributeContainer or MapAttribute; then instances of the      *)
(* three types are created and their fields written and read.               *)

\* The attr_name a field is declared with: none, a name of its own, or the
\* python name of a field.
FieldOverrides == Overrides \cup Names

OneClass == DocClass
TwoClass == Doc2Class
ThreeClass == BoxClass

DeclareOne(base, a) ==
    /\ NumTypes = 0
    /\ Declare(base, "f1", Len(heap) + 1,
               Append(heap, AttributeInit("Unicode", PyNone, PyNone, a)))

DeclareTwo(b) ==
    /\ Len(classes) = OneClass
    /\ Declare(OneClass, "f2", Len(heap) + 1,
               Append(heap, AttributeInit("Unicode", PyNone, PyNone, b)))

DeclareThree(c) ==
    /\ Len(classes) = TwoClass
    /\ Declare(TwoClass, "f3", Len(heap) + 1,
               Append(heap, AttributeInit("Unicode", PyNone, PyNone, c)))

\* The fields of the class of o.
FieldsOf(o) == {n \in Names : get_attribute(classes, heap[o].cls, n) # 0}

FieldsNext ==
    \/ \E base \in {AttributeContainerClass, MapAttributeClass} :
          \E a \in FieldOverrides : DeclareOne(base, a)
    \/ \E b \in FieldOverrides : DeclareTwo(b)
    \/ \E c \in FieldOverrides : DeclareThree(c)
    \/ \E c \in {OneClass, TwoClass, ThreeClass} :
          Instantiate(c) /\ Within(MaxNodes)
    \/ Access({t \in Instances \X Names : t[2] \in FieldsOf(t[1])}, MaxNodes)

SpecFields == NodeInit /\ [][FieldsNext]_vars

\* C21: on an instance of any registered type, setting a field f through
\* the attribute protocol stores the value under f, a following get of f
\* returns it and the value read for every other field is what it was,
\* whatever attr_name overrides the type declares.
FieldIndependence ==
    [][(/\ Calls({"setattr"})
        /\ input'.cls \in Instances
        /\ input'.a.name \in FieldsOf(input'.cls))
       => LET o == input'.cls
              f == input'.a.name
          IN /\ f \in DOMAIN heap'[o].values
             /\ heap'[o].values[f] = input'.a.value
             /\ getattr(heap', classes, o, f) = input'.a.value
             /\ \A g \in FieldsOf(o) \ {f} :
                   getattr(heap', classes, o, g) = getattr(heap, classes, o, g)
      ]_vars

====
